---- MODULE Spec2Model ----
(***************************************************************************)
(* Model of myscrcpy/controller/video_socket_controller.py:                *)
(* VideoSocketController (handshake, decode loop, shared-memory publisher,  *)
(* start/close) and VideoStream (the subscriber side of the segment).       *)
(*                                                                          *)
(* One session is modelled with its three threads of control: the caller    *)
(* of start(), the decode worker (_main_thread) and the publisher worker    *)
(* (_share_thread).  close() can be called from any thread at any time.     *)
(* Every read or write of a shared attribute (is_running, frame_n,          *)
(* last_frame, the segment) is a step of its own, so that the workers       *)
(* interleave as Python threads do; a polling loop is its test and sleep.   *)
(* A session's start() is taken on its running branch at most once (the     *)
(* lifecycle CREATED -> HANDSHAKING); it can be called again whenever the   *)
(* running flag is not set.                                                 *)
(***************************************************************************)
EXTENDS Integers, Sequences, FiniteSets, TLC

\* ------------------------------------------------------------------ bounds
\* Frames the decoder yields in one session (caps the decode loop in the guards).
MaxFrames == 2
\* Frames that may decode from the bytes of one read.
MaxPerRead == 2
\* Frames the publisher of another session writes into a segment it owns.
MaxOtherFrames == 1

\* ------------------------------------------------------- program constants
\* The codec the session expects (self.video_codec).
video_codec == "h264"
\* Codec names the peer may send in the handshake ("" = nothing readable).
Codecs == {"h264", "h265", ""}
SOURCE_DISPLAY == "display"
SOURCE_CAMERA == "camera"
\* Bytes of the segment header, struct '>IHH'.
HeaderBytes == 8
\* rgb24: bytes per pixel.
Channels == 3
\* The CLOSED sentinel written into the sequence field.
CLOSED == 0
\* Frame geometries <<height, width>> the decoder may yield: a portrait
\* frame, its rotation (same byte count) and a frame of another size class.
Dims == {<<2, 1>>, <<1, 2>>, <<2, 2>>}

\* The absent frame (last_frame = None).
NoFrame == [id |-> 0, h |-> 0, w |-> 0]

VARIABLES
    is_running,     \* the running flag of the base class
    conn,           \* the socket: "unconnected", "open", "closed"
    peer,           \* the remote end of the stream: "live", "eof"
    video_source,   \* SOURCE_DISPLAY or SOURCE_CAMERA
    closeCalled,    \* close() has been called (history)
    frame_n,        \* FrameStore.sequence
    last_frame,     \* FrameStore.current: [id, h, w], id = decode order
    mainPc,         \* position of the decode worker
    pending,        \* frames still to come out of the bytes of this read
    hsCodec,        \* codec name received in the handshake ("none" before)
    hsError,        \* the error that ended the handshake, "none" otherwise
    pubPc,          \* position of the publisher worker
    n,              \* the publisher's last-published sequence
    pk,             \* the values the publisher has read for this write
    video_shm,      \* the session's handle: "none", "open", "closed"
    shm,            \* the OS segment: [linked, size, seq, h, w, pix]
    callerPc,       \* position of the thread inside start()
    startResult,    \* how the last start() ended: "none", "warned", "returned", "raised"
    subPc,          \* the subscriber: "detached", "attached"
    subView,        \* the subscriber's views: [long, short] fixed at attach
    subResult,      \* what the last subscriber read gave
    first_nbytes,   \* byte size of the first decoded frame (history), 0 before
    max_size,       \* constructor argument max_size (0 = None)
    fps,            \* constructor argument fps
    camera,         \* constructor argument camera: a VideoCamera or NoCamera
    args,           \* what the last to_args() call returned
    other,          \* another session whose segment has the name this one generates
    collided        \* create_shared_frame() met FileExistsError (history)

vars == << is_running, conn, peer, video_source, closeCalled, frame_n, last_frame,
           mainPc, pending, hsCodec, hsError, pubPc, n, pk, video_shm, shm,
           callerPc, startResult, subPc, subView, subResult,
           first_nbytes, max_size, fps, camera, args, other, collided >>

sessionVars == << is_running, conn, peer, video_source, closeCalled >>
storeVars == << frame_n, last_frame, first_nbytes >>
mainVars == << mainPc, pending, hsCodec, hsError >>
pubVars == << pubPc, n, pk, video_shm, shm, collided >>
callerVars == << callerPc, startResult >>
subVars == << subPc, subView, subResult >>
argVars == << max_size, fps, camera, args >>
extVars == << argVars, other >>

\* hid and wid: the frames the height and the width were read from (history).
NoPack == [seq |-> 0, h |-> 0, w |-> 0, pix |-> 0, nbytes |-> 0, hid |-> 0, wid |-> 0]
NoSegment == [linked |-> FALSE, size |-> 0, seq |-> 0, h |-> 0, w |-> 0, pix |-> 0]
NoView == [long |-> 0, short |-> 0]
NoRead == [kind |-> "none", rows |-> 0, cols |-> 0]
\* No other session holds a segment of this session's name.
NoOther == [state |-> "none", seq |-> 0]

\* VideoCamera's fields; "None" stands for None, NoCamera for camera=None.
DefaultCamera == [camera_id |-> 0, camera_ar |-> "None", camera_size |-> "None", camera_fps |-> 0]
NoCamera == [camera_id |-> -1, camera_ar |-> "None", camera_size |-> "None", camera_fps |-> 0]
\* The default of the constructor argument fps.
DefaultFps == 90

\* ndarray.nbytes of an rgb24 frame.
NBytes(f) == f.h * f.w * Channels

Max(a, b) == IF a >= b THEN a ELSE b
Min(a, b) == IF a <= b THEN a ELSE b

\* The state after __init__, but for the arguments and the segment namespace.
InitCore ==
    /\ is_running = FALSE
    /\ conn = "unconnected"
    /\ peer = "live"
    /\ closeCalled = FALSE
    /\ frame_n = 0
    /\ last_frame = NoFrame
    /\ first_nbytes = 0
    /\ mainPc = "idle"
    /\ pending = 0
    /\ hsCodec = "none"
    /\ hsError = "none"
    /\ pubPc = "idle"
    /\ n = 0
    /\ pk = NoPack
    /\ video_shm = "none"
    /\ collided = FALSE
    /\ callerPc = "idle"
    /\ startResult = "none"
    /\ subPc = "detached"
    /\ subView = NoView
    /\ subResult = NoRead
    /\ args = << >>

\* __init__: the source is the camera exactly when a VideoCamera is given.
SourceOf(cam) == IF cam # NoCamera THEN SOURCE_CAMERA ELSE SOURCE_DISPLAY

\* A session built with default arguments, for the display or for a camera,
\* while no segment of its name exists.
Init ==
    /\ InitCore
    /\ camera \in {NoCamera, DefaultCamera}
    /\ video_source = SourceOf(camera)
    /\ max_size = 0
    /\ fps = DefaultFps
    /\ shm = NoSegment
    /\ other = NoOther

\* ------------------------------------------------ session (base class, caller)

\* The base class establishes the connection and sets the running flag.
Connect ==
    /\ conn = "unconnected"
    /\ ~closeCalled
    /\ conn' = "open"
    /\ is_running' = TRUE
    /\ UNCHANGED << peer, video_source, closeCalled >>
    /\ UNCHANGED << storeVars, mainVars, pubVars, callerVars, subVars, extVars >>

\* close(): clears the running flag, nothing else.
Close ==
    /\ is_running' = FALSE
    /\ closeCalled' = TRUE
    /\ UNCHANGED << conn, peer, video_source >>
    /\ UNCHANGED << storeVars, mainVars, pubVars, callerVars, subVars, extVars >>

\* The peer closes the stream cleanly: later reads deliver no bytes.
PeerClose ==
    /\ conn = "open"
    /\ peer = "live"
    /\ peer' = "eof"
    /\ UNCHANGED << is_running, conn, video_source, closeCalled >>
    /\ UNCHANGED << storeVars, mainVars, pubVars, callerVars, subVars, extVars >>

\* start(): the test `if self.is_running`.
StartGuard_NoCheck(running) == TRUE
StartGuard(running) == running

\* start() on the running branch: _start_thread() starts the decode worker ...
StartSpawnMain ==
    /\ callerPc = "idle"
    /\ mainPc = "idle"
    /\ StartGuard(is_running)
    /\ mainPc' = "hs_codec"
    /\ callerPc' = "spawn_share"
    /\ UNCHANGED << pending, hsCodec, hsError, startResult >>
    /\ UNCHANGED << sessionVars, storeVars, pubVars, subVars, extVars >>

\* ... and then the publisher worker.
StartSpawnShare ==
    /\ callerPc = "spawn_share"
    /\ pubPc' = "wait_first"
    /\ callerPc' = "wait_frame"
    /\ UNCHANGED << n, pk, video_shm, shm, collided, startResult >>
    /\ UNCHANGED << sessionVars, storeVars, mainVars, subVars, extVars >>

\* start(): `while self.get_frame() is None: sleep`.
FrameReady_NoWait(f) == TRUE
FrameReady(f) == f # NoFrame

StartWait ==
    /\ callerPc = "wait_frame"
    /\ IF FrameReady(last_frame)
       THEN callerPc' = "idle" /\ startResult' = "returned"
       ELSE callerPc' = "wait_sleep" /\ UNCHANGED startResult
    /\ UNCHANGED << sessionVars, storeVars, mainVars, pubVars, subVars, extVars >>

\* `time.sleep(0.001)`, then the test again.
StartSleep ==
    /\ callerPc = "wait_sleep"
    /\ callerPc' = "wait_frame"
    /\ UNCHANGED startResult
    /\ UNCHANGED << sessionVars, storeVars, mainVars, pubVars, subVars, extVars >>

\* start() when the running flag is not set: warn and return.
StartNotReady ==
    /\ callerPc = "idle"
    /\ ~StartGuard(is_running)
    /\ startResult' = "warned"
    /\ UNCHANGED callerPc
    /\ UNCHANGED << sessionVars, storeVars, mainVars, pubVars, subVars, extVars >>

\* --------------------------------------------- decode worker (_main_thread)

\* The outcome of the codec-name tests of the handshake.
HandshakeError(codec, source) ==
    IF codec = "" /\ source = SOURCE_CAMERA THEN "NegotiationFailed"
    ELSE IF codec # video_codec THEN "UnsupportedCodec"
    ELSE "none"

\* recv(4).decode() and the two tests; a raise ends the worker thread.
HandshakeCodec ==
    /\ mainPc = "hs_codec"
    /\ \E c \in Codecs :
        /\ hsCodec' = c
        /\ hsError' = HandshakeError(c, video_source)
        /\ mainPc' = IF HandshakeError(c, video_source) = "none" THEN "hs_dims" ELSE "crashed"
    /\ UNCHANGED pending
    /\ UNCHANGED << sessionVars, storeVars, pubVars, callerVars, subVars, extVars >>

\* recv(8): initial width and height, logged only.
HandshakeDims ==
    /\ mainPc = "hs_dims"
    /\ mainPc' = "loop_test"
    /\ UNCHANGED << pending, hsCodec, hsError >>
    /\ UNCHANGED << sessionVars, storeVars, pubVars, callerVars, subVars, extVars >>

\* `while self.is_running`.
MainLoopTest ==
    /\ mainPc = "loop_test"
    /\ mainPc' = IF is_running THEN "recv" ELSE "conn_close"
    /\ UNCHANGED << pending, hsCodec, hsError >>
    /\ UNCHANGED << sessionVars, storeVars, pubVars, callerVars, subVars, extVars >>

\* recv(buffer_size) and parse(): the bytes of this read hold k frames; an
\* exhausted stream delivers no bytes, hence no frame.
MainRecv ==
    /\ mainPc = "recv"
    /\ \E k \in 0..MaxPerRead :
        /\ peer = "eof" => k = 0
        /\ last_frame.id + k <= MaxFrames
        /\ pending' = k
    /\ mainPc' = "decode"
    /\ UNCHANGED << hsCodec, hsError >>
    /\ UNCHANGED << sessionVars, storeVars, pubVars, callerVars, subVars, extVars >>

\* The two for-loops: no frame left in this read, back to the loop test.
MainIterationEnd ==
    /\ mainPc = "decode"
    /\ pending = 0
    /\ mainPc' = "loop_test"
    /\ UNCHANGED << pending, hsCodec, hsError >>
    /\ UNCHANGED << sessionVars, storeVars, pubVars, callerVars, subVars, extVars >>

\* decode() yields the next frame and `self.last_frame = ...` replaces the
\* stored frame; the frame's id is its place in decode order.
MainStore ==
    /\ mainPc = "decode"
    /\ pending > 0
    /\ \E d \in Dims :
        /\ last_frame' = [id |-> last_frame.id + 1, h |-> d[1], w |-> d[2]]
        /\ first_nbytes' = IF last_frame = NoFrame THEN d[1] * d[2] * Channels
                           ELSE first_nbytes
    /\ mainPc' = "incr"
    /\ UNCHANGED << frame_n, pending, hsCodec, hsError >>
    /\ UNCHANGED << sessionVars, pubVars, callerVars, subVars, extVars >>

\* `self.frame_n += 1`.
NextSeq_Skip(k) == k + 2
NextSeq_Wrap(k) == (k + 1) % MaxFrames
NextSeq(k) == k + 1

MainIncr ==
    /\ mainPc = "incr"
    /\ frame_n' = NextSeq(frame_n)
    /\ pending' = pending - 1
    /\ mainPc' = "decode"
    /\ UNCHANGED << last_frame, first_nbytes, hsCodec, hsError >>
    /\ UNCHANGED << sessionVars, pubVars, callerVars, subVars, extVars >>

\* recv(), parse(), decode() or to_ndarray() raises in this iteration: control
\* passes to the except clause, the frames left in this read are dropped.
MainError ==
    /\ mainPc \in {"recv", "decode"}
    /\ mainPc = "recv" => peer = "live"
    /\ mainPc = "decode" => pending > 0
    /\ mainPc' = "except"
    /\ pending' = 0
    /\ UNCHANGED << hsCodec, hsError >>
    /\ UNCHANGED << sessionVars, storeVars, pubVars, callerVars, subVars, extVars >>

\* `except Exception: continue`: where the worker goes and what the handler
\* leaves in the counter.
AfterError_Reset(k) == 0
AfterError(k) == k
ErrorTarget_Exit == "crashed"
ErrorTarget == "loop_test"

MainContinue ==
    /\ mainPc = "except"
    /\ mainPc' = ErrorTarget
    /\ frame_n' = AfterError(frame_n)
    /\ UNCHANGED << last_frame, first_nbytes, pending, hsCodec, hsError >>
    /\ UNCHANGED << sessionVars, pubVars, callerVars, subVars, extVars >>

\* `self._conn.close()` after the loop.
MainConnClose ==
    /\ mainPc = "conn_close"
    /\ conn' = "closed"
    /\ mainPc' = "done"
    /\ UNCHANGED << is_running, peer, video_source, closeCalled >>
    /\ UNCHANGED << pending, hsCodec, hsError >>
    /\ UNCHANGED << storeVars, pubVars, callerVars, subVars, extVars >>

MainStep ==
    \/ HandshakeCodec \/ HandshakeDims \/ MainLoopTest \/ MainRecv
    \/ MainIterationEnd \/ MainStore \/ MainIncr \/ MainError \/ MainContinue
    \/ MainConnClose

\* ------------------------------------------- publisher worker (_share_thread)

\* `while self.frame_n == 0`: the only test of the first loop.
ShareWaitFirst ==
    /\ pubPc = "wait_first"
    /\ pubPc' = IF frame_n = 0 THEN "wait_sleep" ELSE "create"
    /\ UNCHANGED << n, pk, video_shm, shm, collided >>
    /\ UNCHANGED << sessionVars, storeVars, mainVars, callerVars, subVars, extVars >>

\* `time.sleep(0.001)`, then the test again.
ShareWaitSleep ==
    /\ pubPc = "wait_sleep"
    /\ pubPc' = "wait_first"
    /\ UNCHANGED << n, pk, video_shm, shm, collided >>
    /\ UNCHANGED << sessionVars, storeVars, mainVars, callerVars, subVars, extVars >>

\* create_shared_frame(self.last_frame.nbytes + 8): a zero-filled segment of
\* that size under the generated name, or, when a segment of that name
\* exists (FileExistsError), a handle on the existing one; then `n = 0`.
SegmentSize_NoHeader(f) == NBytes(f)
SegmentSize(f) == NBytes(f) + HeaderBytes

ShareCreate ==
    /\ pubPc = "create"
    /\ IF shm.linked
       THEN collided' = TRUE /\ UNCHANGED shm
       ELSE /\ shm' = [linked |-> TRUE, size |-> SegmentSize(last_frame),
                       seq |-> 0, h |-> 0, w |-> 0, pix |-> 0]
            /\ UNCHANGED collided
    /\ video_shm' = "open"
    /\ n' = 0
    /\ pubPc' = "loop_test"
    /\ UNCHANGED pk
    /\ UNCHANGED << sessionVars, storeVars, mainVars, callerVars, subVars, extVars >>

\* `while self.is_running`.
ShareLoopTest ==
    /\ pubPc = "loop_test"
    /\ pubPc' = IF is_running THEN "compare" ELSE "sentinel"
    /\ UNCHANGED << n, pk, video_shm, shm, collided >>
    /\ UNCHANGED << sessionVars, storeVars, mainVars, callerVars, subVars, extVars >>

\* `if n != self.frame_n` ... `else: sleep`.
ShareCompare ==
    /\ pubPc = "compare"
    /\ pubPc' = IF n # frame_n THEN "pack_seq" ELSE "loop_test"
    /\ UNCHANGED << n, pk, video_shm, shm, collided >>
    /\ UNCHANGED << sessionVars, storeVars, mainVars, callerVars, subVars, extVars >>

\* struct.pack('>IHH', self.frame_n, shape[0], shape[1]) + tobytes(): four
\* reads of the store, in evaluation order.
SharePackSeq ==
    /\ pubPc = "pack_seq"
    /\ pk' = [pk EXCEPT !.seq = frame_n]
    /\ pubPc' = "pack_h"
    /\ UNCHANGED << n, video_shm, shm, collided >>
    /\ UNCHANGED << sessionVars, storeVars, mainVars, callerVars, subVars, extVars >>

SharePackHeight ==
    /\ pubPc = "pack_h"
    /\ pk' = [pk EXCEPT !.h = last_frame.h, !.hid = last_frame.id]
    /\ pubPc' = "pack_w"
    /\ UNCHANGED << n, video_shm, shm, collided >>
    /\ UNCHANGED << sessionVars, storeVars, mainVars, callerVars, subVars, extVars >>

SharePackWidth ==
    /\ pubPc = "pack_w"
    /\ pk' = [pk EXCEPT !.w = last_frame.w, !.wid = last_frame.id]
    /\ pubPc' = "pack_pix"
    /\ UNCHANGED << n, video_shm, shm, collided >>
    /\ UNCHANGED << sessionVars, storeVars, mainVars, callerVars, subVars, extVars >>

SharePackPixels ==
    /\ pubPc = "pack_pix"
    /\ pk' = [pk EXCEPT !.pix = last_frame.id, !.nbytes = NBytes(last_frame)]
    /\ pubPc' = "write"
    /\ UNCHANGED << n, video_shm, shm, collided >>
    /\ UNCHANGED << sessionVars, storeVars, mainVars, callerVars, subVars, extVars >>

\* `self.video_shm.buf[:] = ...`: the slice assignment takes a value of the
\* buffer's own length (header and payload land in one write) ...
ShareWrite ==
    /\ pubPc = "write"
    /\ HeaderBytes + pk.nbytes = shm.size
    /\ shm' = [shm EXCEPT !.seq = pk.seq, !.h = pk.h, !.w = pk.w, !.pix = pk.pix]
    /\ pubPc' = "record"
    /\ UNCHANGED << n, pk, video_shm, collided >>
    /\ UNCHANGED << sessionVars, storeVars, mainVars, callerVars, subVars, extVars >>

\* ... and raises ValueError for any other length, which ends the worker.
ShareWriteFails ==
    /\ pubPc = "write"
    /\ HeaderBytes + pk.nbytes # shm.size
    /\ pubPc' = "crashed"
    /\ pk' = NoPack
    /\ UNCHANGED << n, video_shm, shm, collided >>
    /\ UNCHANGED << sessionVars, storeVars, mainVars, callerVars, subVars, extVars >>

\* `n = copy(self.frame_n)`.
ShareRecord ==
    /\ pubPc = "record"
    /\ n' = frame_n
    /\ pk' = NoPack
    /\ pubPc' = "loop_test"
    /\ UNCHANGED << video_shm, shm, collided >>
    /\ UNCHANGED << sessionVars, storeVars, mainVars, callerVars, subVars, extVars >>

\* `self.video_shm.buf[:4] = struct.pack('>I', 0)`.
SentinelValue_Keep(seq) == seq
SentinelValue(seq) == CLOSED

ShareSentinel ==
    /\ pubPc = "sentinel"
    /\ shm' = [shm EXCEPT !.seq = SentinelValue(shm.seq)]
    /\ pubPc' = "release"
    /\ UNCHANGED << n, pk, video_shm, collided >>
    /\ UNCHANGED << sessionVars, storeVars, mainVars, callerVars, subVars, extVars >>

\* `self.video_shm.close()` and `self.video_shm.unlink()`; unlink() raises
\* FileNotFoundError when the name is gone already, which ends the worker.
ShareRelease ==
    /\ pubPc = "release"
    /\ video_shm' = "closed"
    /\ shm' = [shm EXCEPT !.linked = FALSE]
    /\ pubPc' = IF shm.linked THEN "done" ELSE "crashed"
    /\ UNCHANGED << n, pk, collided >>
    /\ UNCHANGED << sessionVars, storeVars, mainVars, callerVars, subVars, extVars >>

ShareStep ==
    \/ ShareWaitFirst \/ ShareWaitSleep \/ ShareCreate \/ ShareLoopTest \/ ShareCompare
    \/ SharePackSeq \/ SharePackHeight \/ SharePackWidth \/ SharePackPixels
    \/ ShareWrite \/ ShareWriteFails \/ ShareRecord \/ ShareSentinel \/ ShareRelease

\* ----------------------------------------------------- subscriber (VideoStream)

\* create_by_name() and __init__: attach to the linked segment and build the
\* two views from the header as it is now.
SubAttach ==
    /\ subPc = "detached"
    /\ shm.linked
    /\ subPc' = "attached"
    /\ subView' = [long |-> Max(shm.w, shm.h), short |-> Min(shm.w, shm.h)]
    /\ UNCHANGED subResult
    /\ UNCHANGED << sessionVars, storeVars, mainVars, pubVars, callerVars, extVars >>

\* get_frame(): frame_id == 0 raises "VideoStream Closed!"; otherwise one of
\* the two views is returned, by the orientation of the header just read.
\* Coordinate.rotation: vertical (portrait) when the height exceeds the width.
Rotation(h, w) == IF h > w THEN "vertical" ELSE "horizontal"

ReadResult(seg, view) ==
    IF seg.seq = CLOSED THEN [kind |-> "StreamClosed", rows |-> 0, cols |-> 0]
    ELSE IF Rotation(seg.h, seg.w) = "vertical"
         THEN [kind |-> "frame", rows |-> view.long, cols |-> view.short]
         ELSE [kind |-> "frame", rows |-> view.short, cols |-> view.long]

SubRead ==
    /\ subPc = "attached"
    /\ subResult' = ReadResult(shm, subView)
    /\ UNCHANGED << subPc, subView >>
    /\ UNCHANGED << sessionVars, storeVars, mainVars, pubVars, callerVars, extVars >>

\* ---------------------------------------------------------- specification

Next ==
    \/ Connect \/ Close \/ PeerClose
    \/ StartSpawnMain \/ StartSpawnShare \/ StartWait \/ StartSleep \/ StartNotReady
    \/ HandshakeCodec \/ HandshakeDims \/ MainLoopTest \/ MainRecv
    \/ MainIterationEnd \/ MainStore \/ MainIncr \/ MainError \/ MainContinue
    \/ MainConnClose
    \/ ShareWaitFirst \/ ShareWaitSleep \/ ShareCreate \/ ShareLoopTest \/ ShareCompare
    \/ SharePackSeq \/ SharePackHeight \/ SharePackWidth \/ SharePackPixels
    \/ ShareWrite \/ ShareWriteFails \/ ShareRecord \/ ShareSentinel \/ ShareRelease

\* The session by itself.
Spec == Init /\ [][Next]_vars

\* The session and a subscriber process attached to its segment.
SubNext == Next \/ SubAttach \/ SubRead

SubSpec == Init /\ [][SubNext]_vars

CallerStep == StartSpawnMain \/ StartSpawnShare \/ StartWait \/ StartSleep

\* The three threads of the session are scheduled fairly; close(), the peer
\* and the subscriber act when they choose to.
Fairness == WF_vars(CallerStep) /\ WF_vars(MainStep) /\ WF_vars(ShareStep)

FairSpec == Spec /\ Fairness

FairSubSpec == SubSpec /\ Fairness

\* ------------------------------------------------------------------ claims

\* start() took its running branch and has returned to its caller.
StartReturned == callerPc = "idle" /\ mainPc # "idle"

\* The decode worker is inside `while self.is_running`.
InDecodeLoop == mainPc \in {"loop_test", "recv", "decode", "incr", "except"}

\* The publisher has written the sentinel.
SentinelWritten == pubPc \in {"release", "done"}

\* C1: every decoded frame advances frame_n by exactly one, in decode order:
\* once a frame has been counted frame_n is the number of frames decoded so
\* far (the frame being counted excepted), frame_n never decreases, and each
\* value frame_n takes is the decode-order number of the frame just stored.
C1_SequenceCountsFrames ==
    /\ [](frame_n = IF mainPc = "incr" THEN last_frame.id - 1 ELSE last_frame.id)
    /\ [][/\ frame_n' >= frame_n
          /\ frame_n' # frame_n =>
                /\ frame_n' = frame_n + 1
                /\ frame_n' = last_frame.id
                /\ last_frame' = last_frame]_vars

\* A read that holds two frames: the first is counted, the second is to come.
C1_Witness == mainPc = "decode" /\ pending = 1 /\ frame_n = 1 /\ last_frame.id = 1

\* C2 (as claimed): after close() the publisher eventually writes the CLOSED
\* sentinel into the sequence field of the segment, writes nothing to the
\* segment after that, and every subscriber read made after it fails with
\* StreamClosed.  (Stated for a session whose publisher worker was started.)
C2_SentinelAfterClose ==
    /\ (closeCalled /\ pubPc # "idle") ~> (SentinelWritten /\ shm.seq = CLOSED)
    /\ [][SentinelWritten =>
            << shm'.size, shm'.seq, shm'.h, shm'.w, shm'.pix >>
              = << shm.size, shm.seq, shm.h, shm.w, shm.pix >>]_vars
    /\ [][SentinelWritten /\ subResult' # subResult =>
            subResult'.kind = "StreamClosed"]_vars

\* C6 (as claimed): when close() is called on a session that start() has brought to
\* STREAMING, both workers eventually exit: the decode worker has closed the
\* stream, the publisher has written the sentinel and released and unlinked
\* the segment.
C6_CloseReachesClosed ==
    (StartReturned /\ closeCalled)
        ~> (/\ mainPc = "done" /\ conn = "closed"
            /\ pubPc = "done" /\ shm.seq = CLOSED /\ ~shm.linked /\ video_shm = "closed")

\* C8 (as claimed): once the stream is exhausted while the decode loop runs, the loop ends
\* and the stream is closed, whether or not close() is called.
C8_ExhaustionEndsLoop ==
    (peer = "eof" /\ InDecodeLoop) ~> (mainPc = "done" /\ conn = "closed")

\* C3 (as claimed): after a codec mismatch no decode-loop iteration has run,
\* no publisher worker is running, no segment exists and the store is empty.
C3_MismatchLeavesNothingRunning ==
    hsError = "UnsupportedCodec" =>
        /\ mainPc = "crashed"
        /\ pubPc = "idle"
        /\ video_shm = "none" /\ ~shm.linked
        /\ frame_n = 0 /\ last_frame = NoFrame

\* C4 (as claimed): a handshake failure ends start() with that error, and no
\* worker thread has been spawned by then.
C4_HandshakeErrorRaisedByStart ==
    hsError # "none" =>
        /\ callerPc = "idle" /\ startResult = "raised"
        /\ pubPc = "idle"

\* C5: start() on a running session is a barrier: once it has returned
\* get_frame() yields a frame.
C5_StartBarrier == StartReturned => last_frame # NoFrame

\* start() has returned while the first frame is stored but not yet counted.
C5_Witness == StartReturned /\ startResult = "returned" /\ last_frame.id = 1 /\ frame_n = 0

\* C7: the sequence values written into the segment header, in write order and
\* before the sentinel, never decrease.
C7_PublishedNonDecreasing ==
    [][pubPc = "write" => shm'.seq >= shm.seq]_vars

\* The publisher recorded 1 as published and has now written 2.
C7_Witness == pubPc = "record" /\ n = 1 /\ shm.seq = 2

\* C9: an error in a decode-loop iteration is handled inside the loop: the
\* handler goes back to the loop test with the store untouched, the loop test
\* goes on to the next read while the flag is set, and the decode worker never
\* ends by an error once the handshake has succeeded.
C9_ErrorsSwallowed ==
    /\ [](mainPc = "crashed" => hsError # "none")
    /\ [][mainPc = "except" /\ mainPc' # mainPc =>
            /\ mainPc' = "loop_test"
            /\ frame_n' = frame_n /\ last_frame' = last_frame
            /\ is_running' = is_running]_vars
    /\ [][mainPc = "loop_test" /\ is_running /\ mainPc' # mainPc => mainPc' = "recv"]_vars

\* An iteration has raised after a frame was stored and counted.
C9_Witness == mainPc = "except" /\ is_running /\ frame_n = 1 /\ last_frame.id = 1

\* C10: start() while the running flag is not set only warns: it returns to
\* its caller and leaves the workers, the store, the segment and the session
\* as they are.
C10_StartNotReadyNoop ==
    [][callerPc = "idle" /\ ~is_running /\ callerVars' # callerVars =>
            /\ callerPc' = "idle" /\ startResult' = "warned"
            /\ UNCHANGED << sessionVars, storeVars, mainVars, pubVars >>]_vars

\* start() after close(), with the workers of the earlier start() still there.
C10_Witness ==
    /\ startResult = "warned" /\ closeCalled /\ ~is_running
    /\ mainPc # "idle" /\ pubPc # "idle" /\ frame_n = 1

\* C14 (as claimed): in every state frame_n is 0 exactly when no frame is
\* stored.
C14_SequenceZeroIffAbsent == (frame_n = 0) <=> (last_frame = NoFrame)

\* C14 (amended): a counted frame is a stored frame (frame_n # 0 implies a
\* frame is stored), and a stored frame goes uncounted (frame_n = 0) only
\* while the decode worker is between storing the first frame and counting it.
C14_SequenceZeroWindow ==
    /\ frame_n # 0 => last_frame # NoFrame
    /\ (frame_n = 0 /\ last_frame # NoFrame) => (mainPc = "incr" /\ last_frame.id = 1)

\* The first frame is stored and not yet counted while start() polls for it.
C14_Witness ==
    frame_n = 0 /\ last_frame.id = 1 /\ mainPc = "incr" /\ callerPc = "wait_frame"

\* C15 (as claimed): while the session runs and the publisher is between two
\* publishes, a last-published value equal to frame_n means that the header
\* of the segment carries that sequence.
C15_PublishedMeansInHeader ==
    (/\ is_running /\ video_shm = "open"
     /\ pubPc \in {"loop_test", "compare"}
     /\ n = frame_n)
        => shm.seq = frame_n

\* C16 (as claimed): the capacity of the segment is that of the first decoded
\* frame.
C16_CapacityFromFirstFrame ==
    video_shm # "none" => shm.size = HeaderBytes + first_nbytes

\* C16 (amended): a segment the publisher creates gets the capacity
\* 8 + long_side * short_side * 3 of the frame stored at that moment, and the
\* capacity of the session's segment never changes afterwards.
C16_CapacityFromFrameAtCreation ==
    /\ [][(pubPc = "create" /\ ~shm.linked /\ pubPc' # pubPc) =>
            shm'.size = HeaderBytes
                        + Max(last_frame.h, last_frame.w)
                          * Min(last_frame.h, last_frame.w) * Channels]_vars
    /\ [][video_shm # "none" => shm'.size = shm.size]_vars

\* The segment was created while a later frame of another byte size than the
\* first was the stored one.
C16_Witness ==
    /\ video_shm = "open" /\ ~collided
    /\ shm.size # HeaderBytes + first_nbytes /\ last_frame.id = 2

\* C18 (as claimed): the sequence, height, width and pixels of one write come
\* from the same frame, the one whose decode-order number is the sequence.
C18_PublishFromOneFrame ==
    pubPc = "write" => (pk.pix = pk.seq /\ pk.hid = pk.seq /\ pk.wid = pk.seq)

\* C20 (as claimed): once the workers are spawned, a close() eventually ends
\* the publisher worker.
C20_CloseEndsPublisher ==
    []((is_running /\ pubPc # "idle")
        => [](closeCalled => <>(pubPc \in {"done", "crashed"})))

\* C12 (as claimed): a subscriber read of a header whose sequence is not 0
\* returns a view with the height of that header as rows and its width as
\* columns, whatever the header held when the subscriber attached.
C12_ViewMatchesHeader ==
    [][(subPc = "attached" /\ shm.seq # CLOSED /\ subResult' # subResult) =>
            /\ subResult'.kind = "frame"
            /\ subResult'.rows = shm.h
            /\ subResult'.cols = shm.w]_vars

\* C19 (as claimed): a subscriber read fails with StreamClosed only after
\* close(), and while the segment can be attached and close() has not been
\* called its sequence field is not 0.
C19_ClosedOnlyAfterClose ==
    /\ subResult.kind = "StreamClosed" => closeCalled
    /\ (shm.linked /\ ~closeCalled) => shm.seq # CLOSED

\* ---------------------------------------------------------------------
\* Server arguments: VideoCamera.to_args and VideoSocketController.to_args.
\* A token f"key={value}" is the pair <<key, value as formatted>>; None is
\* formatted as "None", and None and the empty string are falsy.

Truthy(str) == str \notin {"None", ""}

CameraIds == {0, 1}
CameraStrings(set) == {"None", ""} \cup set
CameraFpsValues == {-1, 0, 30}
MaxSizes == {0, 1920}

CameraConfigs ==
    [camera_id : CameraIds,
     camera_ar : CameraStrings({"16:9"}),
     camera_size : CameraStrings({"1280x720"}),
     camera_fps : CameraFpsValues]

VideoCamera_to_args_ArFirst(cam) ==
    << <<"camera_id", ToString(cam.camera_id)>> >>
    \o (IF Truthy(cam.camera_ar) THEN << <<"camera_ar", cam.camera_ar>> >>
        ELSE IF Truthy(cam.camera_size) THEN << <<"camera_size", cam.camera_size>> >>
        ELSE << >>)
    \o (IF cam.camera_fps > 0 THEN << <<"camera_fps", ToString(cam.camera_fps)>> >>
        ELSE << >>)

VideoCamera_to_args(cam) ==
    << <<"camera_id", ToString(cam.camera_id)>> >>
    \o (IF Truthy(cam.camera_size) THEN << <<"camera_size", cam.camera_size>> >>
        ELSE IF Truthy(cam.camera_ar) THEN << <<"camera_ar", cam.camera_ar>> >>
        ELSE << >>)
    \o (IF cam.camera_fps > 0 THEN << <<"camera_fps", ToString(cam.camera_fps)>> >>
        ELSE << >>)

to_args ==
    << <<"video", "true">>,
       <<"max_size", ToString(max_size)>>,
       <<"max_fps", ToString(fps)>>,
       <<"video_codec", video_codec>>,
       <<"video_source", video_source>> >>
    \o (IF camera # NoCamera THEN VideoCamera_to_args(camera) ELSE << >>)

\* The session is constructed with any camera configuration, or with none.
ArgsInit ==
    /\ InitCore
    /\ camera \in CameraConfigs \cup {NoCamera}
    /\ video_source = SourceOf(camera)
    /\ max_size \in MaxSizes
    /\ fps = DefaultFps
    /\ shm = NoSegment
    /\ other = NoOther

ToArgs ==
    /\ args' = to_args
    /\ UNCHANGED << max_size, fps, camera, other >>
    /\ UNCHANGED << sessionVars, storeVars, mainVars, pubVars, callerVars, subVars >>

ArgsNext == ToArgs

ArgsSpec == ArgsInit /\ [][ArgsNext]_vars

HasToken(key) == \E i \in DOMAIN args : args[i][1] = key
TokenAt(i, key, value) == i \in DOMAIN args /\ args[i] = <<key, value>>
CameraKeys == {"camera_id", "camera_size", "camera_ar", "camera_fps"}
Built == args # << >>

\* C13 (as claimed): for a camera source to_args() emits exactly one of
\* camera_size / camera_ar after camera_id (camera_size whenever a size is
\* set, camera_ar otherwise), camera_fps only when fps > 0, and no camera
\* token for a display source.
C13_ExactlyOneOfSizeOrAr ==
    Built =>
        IF camera = NoCamera
        THEN \A key \in CameraKeys : ~HasToken(key)
        ELSE /\ TokenAt(6, "camera_id", ToString(camera.camera_id))
             /\ HasToken("camera_size") # HasToken("camera_ar")
             /\ HasToken("camera_size") <=> Truthy(camera.camera_size)
             /\ HasToken("camera_fps") <=> camera.camera_fps > 0

\* C13 (amended): after camera_id, to_args() emits camera_size when a size is
\* set (camera_ar then omitted), otherwise camera_ar when an aspect ratio is
\* set, and neither when neither is set; camera_fps is emitted last and only
\* when fps > 0; a display source gets the five video tokens and no camera
\* token.
C13_SizeElseArElseNeither ==
    Built =>
        IF camera = NoCamera
        THEN Len(args) = 5 /\ \A key \in CameraKeys : ~HasToken(key)
        ELSE /\ TokenAt(6, "camera_id", ToString(camera.camera_id))
             /\ IF Truthy(camera.camera_size)
                THEN TokenAt(7, "camera_size", camera.camera_size) /\ ~HasToken("camera_ar")
                ELSE IF Truthy(camera.camera_ar)
                THEN TokenAt(7, "camera_ar", camera.camera_ar) /\ ~HasToken("camera_size")
                ELSE ~HasToken("camera_size") /\ ~HasToken("camera_ar")
             /\ IF camera.camera_fps > 0
                THEN TokenAt(Len(args), "camera_fps", ToString(camera.camera_fps))
                ELSE ~HasToken("camera_fps")
             /\ Len(args) = 6 + (IF HasToken("camera_size") \/ HasToken("camera_ar") THEN 1 ELSE 0)
                              + (IF HasToken("camera_fps") THEN 1 ELSE 0)

C13_Witness ==
    /\ Built
    /\ camera # NoCamera
    /\ Truthy(camera.camera_size) /\ Truthy(camera.camera_ar)
    /\ TokenAt(7, "camera_size", camera.camera_size)
    /\ TokenAt(8, "camera_fps", "30")

\* ---------------------------------------------------------------------
\* Name collision: another session of the same program generated the same
\* name (line 190: a timestamp to the second and a five-digit random number)
\* and created the segment first. Its publisher runs the same _share_thread
\* on that segment; `other` is its position and the frames it has written.

ExistingSizes == {HeaderBytes + d[1] * d[2] * Channels : d \in Dims}

CollideInit ==
    /\ InitCore
    /\ camera = NoCamera
    /\ video_source = SourceOf(camera)
    /\ max_size = 0
    /\ fps = DefaultFps
    /\ \E size \in ExistingSizes :
         shm = [linked |-> TRUE, size |-> size, seq |-> 0, h |-> 0, w |-> 0, pix |-> 0]
    /\ other = [state |-> "running", seq |-> 0]

\* The other publisher's loop body (lines 212-217): its frames fit the segment
\* it sized, and are told apart from this session's by a negative pixel id.
OtherWrite ==
    /\ other.state = "running"
    /\ other.seq < MaxOtherFrames
    /\ \E d \in Dims :
         /\ HeaderBytes + d[1] * d[2] * Channels = shm.size
         /\ shm' = [shm EXCEPT !.seq = other.seq + 1, !.h = d[1], !.w = d[2],
                               !.pix = 0 - (other.seq + 1)]
    /\ other' = [other EXCEPT !.seq = other.seq + 1]
    /\ UNCHANGED << n, pk, video_shm, pubPc, collided, argVars >>
    /\ UNCHANGED << sessionVars, storeVars, mainVars, callerVars, subVars >>

\* The other session's close() and its publisher leaving the loop: the
\* sentinel write of line 220.
OtherClose ==
    /\ other.state = "running"
    /\ shm' = [shm EXCEPT !.seq = SentinelValue(shm.seq)]
    /\ other' = [other EXCEPT !.state = "release"]
    /\ UNCHANGED << n, pk, video_shm, pubPc, collided, argVars >>
    /\ UNCHANGED << sessionVars, storeVars, mainVars, callerVars, subVars >>

\* The other publisher's close() and unlink() (lines 222-223); unlink() raises
\* FileNotFoundError when the name is gone already.
OtherRelease ==
    /\ other.state = "release"
    /\ shm' = [shm EXCEPT !.linked = FALSE]
    /\ other' = [other EXCEPT !.state = IF shm.linked THEN "done" ELSE "crashed"]
    /\ UNCHANGED << n, pk, video_shm, pubPc, collided, argVars >>
    /\ UNCHANGED << sessionVars, storeVars, mainVars, callerVars, subVars >>

CollideNext == Next \/ OtherWrite \/ OtherClose \/ OtherRelease

\* The session next to another session that owns a segment of the same name.
CollideSpec == CollideInit /\ [][CollideNext]_vars

\* C11 (as claimed): after a name collision the session is attached to the
\* existing segment, and neither its publisher nor the publisher of the
\* session owning the segment crashes.
C11_CollisionCrashesNeither ==
    collided =>
        /\ video_shm # "none"
        /\ pubPc # "crashed"
        /\ other.state # "crashed"

\* C17 (as claimed): a segment has a sole writer: once this session is
\* attached to a segment another session created, every step that writes
\* into the segment or unlinks it is a step of the owner's publisher.
C17_SoleWriter ==
    [][(collided /\ shm' # shm) => other' # other]_vars

====
